---- MODULE Spec2Model ----
(***************************************************************************)
(* Session lifecycle manager of the AskMe Bot backend:                     *)
(* backend/app/services/session_manager.py (class SessionManager) and its  *)
(* callers in backend/app/main.py.                                         *)
(*                                                                         *)
(* Time is counted in whole seconds.  Every datetime.now() / time.time()   *)
(* call is a separate reading of the wall clock: the readings of one call  *)
(* of an operation are non-decreasing and may differ; the clock is never   *)
(* set back.                                                               *)
(*                                                                         *)
(* The specifications share the operations:                                *)
(*   Spec        the deployed program: the handlers of main.py, the sweep  *)
(*   SpecStore   the SessionManager called directly, in any order          *)
(*   SpecHist    the SessionManager with one session and a long history    *)
(*   SpecIds     the SessionManager with a session whose history is full   *)
(*   SpecChat    the handlers of main.py on one session, up to its quota   *)
(*   SpecSweeper the handlers and the background task of main.py, from     *)
(*               startup to shutdown, under fair scheduling                *)
(*   SpecThreads the SessionManager called from concurrent threads, one    *)
(*               statement at a time                                       *)
(***************************************************************************)
EXTENDS Integers, Sequences, FiniteSets, TLC

VARIABLES
    sessions,   \* SessionManager.sessions: session id -> session dict
    now,        \* the wall clock
    issued,     \* every id create_session has returned, in order of creation
    removed,    \* every id that was deleted from SessionManager.sessions
    log,        \* per id, every message a successful append has stored
    last,       \* the operation performed by the latest step and its result
    bound,      \* the bounds of the exploration, fixed by the initial state
    sweeper,    \* where the task of cleanup_sessions_periodically stands
    shutdown,   \* cleanup_task.cancel() was called
    faults,     \* number of sweep passes that raised
    threads,    \* the calls of concurrent threads: statement reached, locals
    detached    \* session dicts deleted from the map, by their former key

\* the background task and the threads, which the handlers leave alone
procs == <<sweeper, shutdown, faults, threads, detached>>

vars == <<sessions, now, issued, removed, log, last, bound, procs>>

(***************************************************************************)
(* Program constants                                                       *)
(***************************************************************************)
session_timeout == 3600

\* config.py, SESSION_QUERY_LIMIT: a limit the SessionManager does not read
SESSION_QUERY_LIMIT == 10

\* the quota read from the configuration instead of the constructor's default
max_queries_from_config == SESSION_QUERY_LIMIT

max_queries == 5

MaxHistory == 10

\* request.session_id is Optional[str]: the value of an omitted id
NoneId == 0 - 1

\* Optional results: Python's None and a present value
None == <<>>

Some(x) == <<x>>

(***************************************************************************)
(* Bounds of the exploration                                               *)
(***************************************************************************)
MaxSessions == 2

MaxAppends == 2

MaxTicks == 1

HistAppends == 11

ChatAppends == 12

\* sweep passes that may raise in one run of the program
MaxFaults == 2

SweeperSessions == 2

SweeperAppends == 2

\* concurrent threads calling the SessionManager
NThreads == 2

\* appends to a session that starts with a full history
IdAppends == 3

\* ids a caller may present: those create_session has returned (1, 2, ...)
\* and one that is never issued (0)
Ids == 0..Len(issued)

\* message texts a caller of the store may pass
Texts == {"hello"}

\* the clock may advance by at most this much between two readings of one call
MaxDrift == 1

\* the clock values explored: up to bound.ticks seconds after 0, and the
\* bound.ticks seconds up to the first instant at which a session left idle
\* since 0 is expired
Grid ==
    (0..(bound.ticks)) \cup
    ((session_timeout + 1 - bound.ticks)..(session_timeout + 1))

CanAdvance(d) == d = 0 \/ now + d \in Grid

(***************************************************************************)
(* Clock readings of one call: n non-decreasing readings, the first at     *)
(* `now', drifting by at most MaxDrift in total.                           *)
(***************************************************************************)
Readings(n) ==
    { [i \in 1..n |-> now] } \cup
    { [i \in 1..n |-> IF i <= k THEN now ELSE now + d] :
        k \in 1..(n - 1), d \in {x \in 1..MaxDrift : CanAdvance(x)} }

(***************************************************************************)
(* SessionManager                                                          *)
(***************************************************************************)
\* del self.sessions[session_id]
Del(S, session_id) == [i \in (DOMAIN S) \ {session_id} |-> S[i]]

\* self.sessions[session_id] = value
Put(S, session_id, value) ==
    [i \in (DOMAIN S) \cup {session_id} |-> IF i = session_id THEN value ELSE S[i]]

\* how a call ends: "" when it returns, else the name of the exception raised
NoExc == ""

\* self.sessions[session_id] and del self.sessions[session_id] raise
\* KeyError on a missing key
KeyError(S, session_id) ==
    IF session_id \in DOMAIN S THEN NoExc ELSE "KeyError"

\* datetime.isoformat(): a string rendering of the reading
isoformat(t) == <<"iso", t>>

\* an id derived from the number of stored sessions
id_from_size == Cardinality(DOMAIN sessions) + 1

\* str(uuid.uuid4()): an id no earlier call has returned
uuid4 == Len(issued) + 1

\* a constructor that starts the map afresh: self.sessions = {session_id: ...}
create_in_new_map(S, session_id, clk) ==
    [S   |-> Put(<<>>, session_id,
                 [created_at    |-> clk[1],
                  last_activity |-> clk[2],
                  messages      |-> <<>>,
                  query_count   |-> 0,
                  max_queries   |-> max_queries]),
     ret |-> session_id,
     exc |-> NoExc]

create_session(S, session_id, clk) ==
    [S   |-> Put(S, session_id,
                 [created_at    |-> clk[1],
                  last_activity |-> clk[2],
                  messages      |-> <<>>,
                  query_count   |-> 0,
                  max_queries   |-> max_queries]),
     ret |-> session_id,
     exc |-> NoExc]

\* an expiry test that measures from the creation of the session
expired_since_creation(session, t) ==
    t - session.created_at > session_timeout

\* an expiry test that takes the boundary for expired
expired_at_boundary(session, t) ==
    t - session.last_activity >= session_timeout

_is_session_expired(session, t) ==
    t - session.last_activity > session_timeout

\* a lookup without the expiry check
get_without_expiry(S, session_id, t) ==
    IF session_id \notin DOMAIN S
    THEN [S |-> S, ret |-> None, exc |-> NoExc]
    ELSE [S |-> S, ret |-> Some(S[session_id]), exc |-> NoExc]

\* a lookup without the membership test of lines 26-27
get_without_membership_test(S, session_id, t) ==
    IF KeyError(S, session_id) # NoExc
    THEN [S |-> S, ret |-> None, exc |-> KeyError(S, session_id)]
    ELSE IF _is_session_expired(S[session_id], t)
         THEN [S |-> Del(S, session_id), ret |-> None, exc |-> NoExc]
         ELSE [S |-> S, ret |-> Some(S[session_id]), exc |-> NoExc]

\* exc: the outcome of the subscript of line 29 and of the del of line 33
get_session(S, session_id, t) ==
    IF session_id \notin DOMAIN S
    THEN [S |-> S, ret |-> None, exc |-> NoExc]
    ELSE IF _is_session_expired(S[session_id], t)
         THEN [S |-> Del(S, session_id), ret |-> None,
               exc |-> KeyError(S, session_id)]
         ELSE [S |-> S, ret |-> Some(S[session_id]),
               exc |-> KeyError(S, session_id)]

update_session_activity(S, session_id, t) ==
    IF session_id \in DOMAIN S
    THEN [S EXCEPT ![session_id].last_activity = t]
    ELSE S

\* a slice that keeps the oldest entries: session['messages'][:10]
FirstN(s, n) == IF Len(s) > n THEN SubSeq(s, 1, n) ELSE s

\* session['messages'][-10:]
LastN(s, n) == IF Len(s) > n THEN SubSeq(s, Len(s) - n + 1, Len(s)) ELSE s

\* a message whose id starts again from 0 every hour
message_data_wrapping(message, is_user, clk) ==
    [text      |-> message,
     isUser    |-> is_user,
     timestamp |-> isoformat(clk[2]),
     id        |-> (clk[3] % session_timeout) * 1000]

\* the dict add_message_to_session builds; int(time.time() * 1000) is the
\* reading in milliseconds
message_data(message, is_user, clk) ==
    [text      |-> message,
     isUser    |-> is_user,
     timestamp |-> isoformat(clk[2]),
     id        |-> clk[3] * 1000]

\* a count that takes every message for a query
count_every_message(query_count, is_user) == query_count + 1

\* a count that no message moves
count_no_query(query_count, is_user) == query_count

\* if is_user: session['query_count'] += 1
count_query(query_count, is_user) ==
    IF is_user THEN query_count + 1 ELSE query_count

\* clk: the readings of _is_session_expired, of the message timestamp, of the
\* message id and of update_session_activity
add_message_to_session(S, session_id, message, is_user, clk) ==
    LET g == get_session(S, session_id, clk[1]) IN
    IF g.ret = None
    THEN [S |-> g.S, ret |-> FALSE, exc |-> g.exc]
    ELSE
        LET session      == g.S[session_id]
            appended     == Append(session.messages,
                                   message_data(message, is_user, clk))
            query_count  == count_query(session.query_count, is_user)
            messages     == IF Len(appended) > MaxHistory
                            THEN LastN(appended, MaxHistory)
                            ELSE appended
            S1           == [g.S EXCEPT ![session_id].messages = messages,
                                        ![session_id].query_count = query_count]
        IN [S |-> update_session_activity(S1, session_id, clk[4]), ret |-> TRUE,
            exc |-> NoExc]

\* a read that takes the entry from the map without the expiry check
history_without_expiry(S, session_id, t) ==
    IF session_id \notin DOMAIN S
    THEN [S |-> S, ret |-> <<>>, exc |-> NoExc]
    ELSE [S |-> S, ret |-> S[session_id].messages, exc |-> NoExc]

get_conversation_history(S, session_id, t) ==
    LET g == get_session(S, session_id, t) IN
    IF g.ret = None
    THEN [S |-> g.S, ret |-> <<>>, exc |-> g.exc]
    ELSE [S |-> g.S, ret |-> g.ret[1].messages, exc |-> NoExc]

\* a quota test that still admits a query at the ceiling
can_query_at_ceiling(S, session_id, t) ==
    LET g == get_session(S, session_id, t) IN
    IF g.ret = None
    THEN [S |-> g.S, ret |-> FALSE, exc |-> g.exc]
    ELSE [S |-> g.S, ret |-> g.ret[1].query_count <= g.ret[1].max_queries,
          exc |-> NoExc]

can_make_query(S, session_id, t) ==
    LET g == get_session(S, session_id, t) IN
    IF g.ret = None
    THEN [S |-> g.S, ret |-> FALSE, exc |-> g.exc]
    ELSE [S |-> g.S, ret |-> g.ret[1].query_count < g.ret[1].max_queries,
          exc |-> NoExc]

Max(a, b) == IF a >= b THEN a ELSE b

\* the remaining queries without the floor of max(0, ...)
remaining_without_floor(S, session_id, t) ==
    LET g == get_session(S, session_id, t) IN
    IF g.ret = None
    THEN [S |-> g.S, ret |-> 0, exc |-> g.exc]
    ELSE [S |-> g.S, ret |-> g.ret[1].max_queries - g.ret[1].query_count,
          exc |-> NoExc]

get_remaining_queries(S, session_id, t) ==
    LET g == get_session(S, session_id, t) IN
    IF g.ret = None
    THEN [S |-> g.S, ret |-> 0, exc |-> g.exc]
    ELSE [S |-> g.S, ret |-> Max(0, g.ret[1].max_queries - g.ret[1].query_count),
          exc |-> NoExc]

\* self.sessions.items(): the keys in insertion order.  Ids are issued in
\* increasing order and a deleted key is not inserted again, so insertion
\* order is increasing order.
RECURSIVE Keys(_)
Keys(D) ==
    IF D = {} THEN <<>>
    ELSE LET m == CHOOSE x \in D : \A y \in D : x <= y
         IN <<m>> \o Keys(D \ {m})

\* for session_id in expired_sessions: del self.sessions[session_id]
RECURSIVE DelAll(_, _)
DelAll(S, ids) ==
    IF ids = <<>> THEN [S |-> S, exc |-> NoExc]
    ELSE IF KeyError(S, Head(ids)) # NoExc
         THEN [S |-> S, exc |-> KeyError(S, Head(ids))]
         ELSE DelAll(Del(S, Head(ids)), Tail(ids))

\* a sweep that counts the expired sessions and deletes none
count_expired_sessions(S, clk) ==
    LET keys == Keys(DOMAIN S)
        expired_sessions ==
            SelectSeq([i \in 1..Len(keys) |-> <<keys[i], clk[i]>>],
                      LAMBDA e : _is_session_expired(S[e[1]], e[2]))
    IN [S |-> S, ret |-> Len(expired_sessions), exc |-> NoExc]

\* a sweep with an expiry test of its own, which takes the boundary for expired
cleanup_at_boundary(S, clk) ==
    LET keys == Keys(DOMAIN S)
        gone == {keys[i] : i \in {j \in 1..Len(keys) :
                    clk[j] - S[keys[j]].last_activity >= session_timeout}}
    IN [S |-> [i \in (DOMAIN S) \ gone |-> S[i]],
        ret |-> Cardinality(gone),
        exc |-> NoExc]

\* clk[i]: the reading of _is_session_expired for the i-th scanned session
cleanup_expired_sessions(S, clk) ==
    LET keys == Keys(DOMAIN S)
        expired_sessions ==
            SelectSeq([i \in 1..Len(keys) |-> <<keys[i], clk[i]>>],
                      LAMBDA e : _is_session_expired(S[e[1]], e[2]))
        d == DelAll(S, [i \in 1..Len(expired_sessions) |-> expired_sessions[i][1]])
    IN [S |-> d.S, ret |-> Len(expired_sessions), exc |-> d.exc]

(***************************************************************************)
(* main.py: the handlers.  None of them awaits between its calls of the    *)
(* session manager, so each runs to completion on the event loop; only the *)
(* clock moves while it runs.                                              *)
(***************************************************************************)
\* POST /api/session/new; clk: 1-2 create_session, 3 get_remaining_queries
create_new_session(S, new_id, clk) ==
    LET c == create_session(S, new_id, SubSeq(clk, 1, 2))
        r == get_remaining_queries(c.S, c.ret, clk[3])
    IN [S |-> r.S, session_id |-> c.ret, remaining_queries |-> r.ret]

\* GET /api/session/{session_id}/history; clk: 1 get_conversation_history,
\* 2 get_remaining_queries
get_session_history(S, session_id, clk) ==
    LET h == get_conversation_history(S, session_id, clk[1])
        r == get_remaining_queries(h.S, session_id, clk[2])
    IN [S |-> r.S, session_id |-> session_id, history |-> h.ret,
        remaining_queries |-> r.ret]

\* request.message values and str.strip() on them
ChatMessages == {" hello ", "  "}

strip(m) ==
    CASE m = " hello " -> "hello"
      [] m = "  "      -> ""
      [] OTHER         -> m

\* what GeminiService.generate_response may return
Replies == {"hi"}

\* POST /api/chat.  No call of the session manager raises and
\* generate_response returns a string whatever happens, so the handler of
\* lines 186-188 is not entered.
\* clk: the 14 clock readings of one request, in program order:
\*   1 get_session, 2-3 create_session, 4 can_make_query,
\*   5-8 add_message_to_session (user), 9 get_conversation_history,
\*   10-13 add_message_to_session (reply), 14 get_remaining_queries
chat(S, request, gemini_service, new_id, bot_response, clk) ==
    IF ~gemini_service
    THEN [S |-> S, status |-> 503, created |-> FALSE, stored |-> <<>>]
    ELSE
        LET g       == IF request.session_id = NoneId
                       THEN [S |-> S, ret |-> None]
                       ELSE get_session(S, request.session_id, clk[1])
            fresh   == request.session_id = NoneId \/ g.ret = None
            c       == IF fresh
                       THEN create_session(g.S, new_id, SubSeq(clk, 2, 3))
                       ELSE [S |-> g.S, ret |-> request.session_id]
            session_id == c.ret
            q       == can_make_query(c.S, session_id, clk[4])
            user_message == strip(request.message)
        IN
        IF ~q.ret
        THEN [S |-> q.S, status |-> 429, created |-> fresh, stored |-> <<>>,
              session_id |-> session_id]
        ELSE IF user_message = ""
        THEN [S |-> q.S, status |-> 400, created |-> fresh, stored |-> <<>>,
              session_id |-> session_id]
        ELSE
            LET a1 == add_message_to_session(q.S, session_id, user_message,
                                             TRUE, SubSeq(clk, 5, 8))
                h  == get_conversation_history(a1.S, session_id, clk[9])
                a2 == add_message_to_session(h.S, session_id, bot_response,
                                             FALSE, SubSeq(clk, 10, 13))
                r  == get_remaining_queries(a2.S, session_id, clk[14])
            IN [S |-> r.S, status |-> 200, created |-> fresh,
                stored |->
                    (IF a1.ret
                     THEN <<message_data(user_message, TRUE, SubSeq(clk, 5, 8))>>
                     ELSE <<>>) \o
                    (IF a2.ret
                     THEN <<message_data(bot_response, FALSE, SubSeq(clk, 10, 13))>>
                     ELSE <<>>),
                session_id |-> session_id,
                response |-> bot_response,
                remaining_queries |-> r.ret]

\* how long the call to the Gemini API may take
GeminiDelays == {0, session_timeout + 1}

\* the readings of one chat request: drift as in Readings, and the Gemini
\* call between readings 9 and 10
ChatReadings ==
    UNION { { [i \in 1..14 |-> IF i <= 9 THEN base[i] ELSE base[i] + g] :
                g \in {x \in GeminiDelays :
                          \A i \in 10..14 : CanAdvance(base[i] + x - now)} } :
            base \in Readings(14) }

(***************************************************************************)
(* State machine                                                           *)
(***************************************************************************)
TotalAppends ==
    LET RECURSIVE Sum(_)
        Sum(D) == IF D = {} THEN 0
                  ELSE LET i == CHOOSE x \in D : TRUE
                       IN Len(log[i]) + Sum(D \ {i})
    IN Sum(DOMAIN log)

Bounds(sess, apps, ticks) == [sessions |-> sess, appends |-> apps, ticks |-> ticks]

InitWith(b) ==
    /\ sessions = <<>>
    /\ now = 0
    /\ issued = <<>>
    /\ removed = {}
    /\ bound = b
    /\ log = [i \in 0..(b.sessions) |-> <<>>]
    /\ last = [op |-> "init"]
    /\ sweeper = "created"
    /\ shutdown = "serving"
    /\ faults = 0
    /\ threads = <<>>
    /\ detached = <<>>

Init == InitWith(Bounds(MaxSessions, MaxAppends, MaxTicks))

\* a single session with a long history, on a clock that only jumps from 0
\* to past the timeout
InitHist == InitWith(Bounds(1, HistAppends, 0))

\* a single session that chat requests take to its quota, on a clock that
\* only jumps from 0 to past the timeout
InitChat == InitWith(Bounds(1, ChatAppends, 0))

\* the program from startup to shutdown
InitSweeper == InitWith(Bounds(SweeperSessions, SweeperAppends, 0))

\* ghost bookkeeping shared by the operations: what the id names when the
\* operation starts, and the keys that left the map
Was(session_id) ==
    IF session_id \notin DOMAIN sessions THEN "absent"
    ELSE IF now - sessions[session_id].last_activity > session_timeout
         THEN "expired" ELSE "live"

Removed(S2) == removed \cup ((DOMAIN sessions) \ (DOMAIN S2))

\* time passes between two operations
Tick ==
    \E t \in Grid :
        /\ t > now
        /\ now' = t
        /\ last' = [op |-> "tick"]
        /\ UNCHANGED <<sessions, issued, removed, log, bound, procs>>

CreateSession ==
    /\ Len(issued) < bound.sessions
    /\ \E clk \in Readings(2) :
        LET r == create_session(sessions, uuid4, clk) IN
        /\ sessions' = r.S
        /\ issued' = Append(issued, r.ret)
        /\ now' = clk[2]
        /\ removed' = Removed(r.S)
        /\ last' = [op |-> "create_session", id |-> r.ret, ret |-> r.ret,
                    exc |-> r.exc]
        /\ UNCHANGED <<log, bound, procs>>

GetSession ==
    \E session_id \in Ids :
        LET r == get_session(sessions, session_id, now) IN
        /\ sessions' = r.S
        /\ removed' = Removed(r.S)
        /\ last' = [op |-> "get_session", id |-> session_id,
                    was |-> Was(session_id), ret |-> r.ret,
                    exc |-> r.exc]
        /\ UNCHANGED <<now, issued, log, bound, procs>>

AddMessage ==
    /\ TotalAppends < bound.appends
    /\ \E session_id \in Ids, message \in Texts, is_user \in BOOLEAN,
          clk \in Readings(4) :
        LET r == add_message_to_session(sessions, session_id, message, is_user, clk) IN
        /\ sessions' = r.S
        /\ removed' = Removed(r.S)
        /\ now' = IF r.ret THEN clk[4] ELSE now
        /\ log' = IF r.ret
                  THEN [log EXCEPT ![session_id] =
                            Append(@, message_data(message, is_user, clk))]
                  ELSE log
        /\ last' = [op |-> "add_message_to_session", id |-> session_id,
                    was |-> Was(session_id), is_user |-> is_user, ret |-> r.ret,
                    exc |-> r.exc]
        /\ UNCHANGED <<issued, bound, procs>>

GetConversationHistory ==
    \E session_id \in Ids :
        LET r == get_conversation_history(sessions, session_id, now) IN
        /\ sessions' = r.S
        /\ removed' = Removed(r.S)
        /\ last' = [op |-> "get_conversation_history", id |-> session_id,
                    was |-> Was(session_id), ret |-> r.ret,
                    exc |-> r.exc]
        /\ UNCHANGED <<now, issued, log, bound, procs>>

CanMakeQuery ==
    \E session_id \in Ids :
        LET r == can_make_query(sessions, session_id, now) IN
        /\ sessions' = r.S
        /\ removed' = Removed(r.S)
        /\ last' = [op |-> "can_make_query", id |-> session_id,
                    was |-> Was(session_id), ret |-> r.ret,
                    exc |-> r.exc]
        /\ UNCHANGED <<now, issued, log, bound, procs>>

GetRemainingQueries ==
    \E session_id \in Ids :
        LET r == get_remaining_queries(sessions, session_id, now) IN
        /\ sessions' = r.S
        /\ removed' = Removed(r.S)
        /\ last' = [op |-> "get_remaining_queries", id |-> session_id,
                    was |-> Was(session_id), ret |-> r.ret,
                    exc |-> r.exc]
        /\ UNCHANGED <<now, issued, log, bound, procs>>

CleanupExpiredSessions ==
    \E clk \in Readings(Cardinality(DOMAIN sessions)) :
        LET r == cleanup_expired_sessions(sessions, clk) IN
        /\ sessions' = r.S
        /\ removed' = Removed(r.S)
        /\ now' = IF Len(clk) = 0 THEN now ELSE clk[Len(clk)]
        /\ last' = [op |-> "cleanup_expired_sessions",
                    reads |-> [id \in DOMAIN sessions |->
                                 clk[CHOOSE i \in 1..Len(clk) :
                                        Keys(DOMAIN sessions)[i] = id]],
                    ret |-> r.ret, exc |-> r.exc]
        /\ UNCHANGED <<issued, log, bound, procs>>

\* a caller of the store refreshes a session; the method returns None
UpdateSessionActivity ==
    \E session_id \in Ids :
        /\ sessions' = update_session_activity(sessions, session_id, now)
        /\ last' = [op |-> "update_session_activity", id |-> session_id,
                    was |-> Was(session_id), ret |-> None, exc |-> NoExc]
        /\ UNCHANGED <<now, issued, removed, log, bound, procs>>

ChatStep(request, gemini_service, bot_response, clk) ==
    LET r == chat(sessions, request, gemini_service, uuid4, bot_response, clk) IN
    /\ Len(issued) + (IF r.created THEN 1 ELSE 0) <= bound.sessions
    /\ TotalAppends + Len(r.stored) <= bound.appends
    /\ sessions' = r.S
    /\ removed' = Removed(r.S) \cup
                    (IF r.created /\ uuid4 \notin DOMAIN r.S THEN {uuid4} ELSE {})
    /\ issued' = IF r.created THEN Append(issued, uuid4) ELSE issued
    /\ now' = IF r.status = 200 THEN clk[14]
              ELSE IF r.status = 503 THEN now ELSE clk[4]
    /\ log' = IF r.status = 200 /\ r.stored # <<>>
              THEN [log EXCEPT ![r.session_id] = @ \o r.stored]
              ELSE log
    /\ last' = [op |-> "chat", request |-> request, was |-> Was(request.session_id),
                result |-> [x \in (DOMAIN r) \ {"S", "stored", "created"} |-> r[x]]]
    /\ UNCHANGED <<bound, procs>>

Chat ==
    \/ \E session_id \in Ids \cup {NoneId}, message \in ChatMessages :
            ChatStep([session_id |-> session_id, message |-> message],
                     FALSE, "", [i \in 1..14 |-> now])
    \/ \E clk \in ChatReadings, bot_response \in Replies,
          session_id \in Ids \cup {NoneId}, message \in ChatMessages :
            ChatStep([session_id |-> session_id, message |-> message],
                     TRUE, bot_response, clk)

NewSession ==
    /\ Len(issued) < bound.sessions
    /\ \E clk \in Readings(3) :
        LET r == create_new_session(sessions, uuid4, clk) IN
        /\ sessions' = r.S
        /\ issued' = Append(issued, r.session_id)
        /\ now' = clk[3]
        /\ removed' = Removed(r.S)
        /\ last' = [op |-> "create_new_session",
                    result |-> [session_id |-> r.session_id,
                                remaining_queries |-> r.remaining_queries]]
        /\ UNCHANGED <<log, bound, procs>>

SessionHistory ==
    \E session_id \in Ids, clk \in Readings(2) :
        LET r == get_session_history(sessions, session_id, clk) IN
        /\ sessions' = r.S
        /\ removed' = Removed(r.S)
        /\ now' = clk[2]
        /\ last' = [op |-> "get_session_history", was |-> Was(session_id),
                    result |-> [session_id |-> r.session_id, history |-> r.history,
                                remaining_queries |-> r.remaining_queries]]
        /\ UNCHANGED <<issued, log, bound, procs>>

(***************************************************************************)
(* main.py, lines 44-64: the background task.  The event loop runs a task  *)
(* from one await to the next without interruption; the task is suspended  *)
(* only at its two asyncio.sleep calls.  cleanup_task.cancel() makes the   *)
(* await the task is suspended at raise CancelledError when the task runs  *)
(* next.                                                                   *)
(***************************************************************************)
\* where the task can be suspended: created by line 45 and not yet run, in
\* the sleep of line 59, in the sleep of line 64
Waits == {"created", "sleep", "sleep_after_error"}

\* how the task can end: the coroutine returned, CancelledError left it
Ended == {"returned", "cancelled"}

\* a loop that an error of the pass ends
stop_on_error(raised) == IF raised THEN "returned" ELSE "sleep"

\* where one run of lines 55-59 leaves the task: an Exception raised by the
\* pass is caught at line 62 and the task sleeps at line 64
after_pass(raised) == IF raised THEN "sleep_after_error" ELSE "sleep"

\* a loop whose handler of line 62 also takes the cancellation raised by its
\* own sleep, and goes on
swallow_cancel(at) == IF at = "sleep" THEN "returned" ELSE "sleep"

\* where CancelledError leaves the task: raised by line 59 it is caught at
\* line 60 and the loop breaks; raised by line 64, inside the handler of
\* line 62, or before the first run, no clause catches it and it leaves the
\* coroutine
on_cancel(at) == IF at = "sleep" THEN "returned" ELSE "cancelled"

\* one run of the task from the top of the loop to its next await.  raised:
\* line 56 raised an error of a kind the pass is not expected to raise,
\* before it deleted anything
SweepPass ==
    /\ sweeper \in Waits
    /\ shutdown # "cancel_requested"
    /\ \E raised \in {x \in BOOLEAN : x => faults < MaxFaults},
          clk \in Readings(Cardinality(DOMAIN sessions)) :
        LET r == IF raised
                 THEN [S |-> sessions, ret |-> 0, exc |-> "Exception"]
                 ELSE cleanup_expired_sessions(sessions, clk)
        IN
        /\ sessions' = r.S
        /\ removed' = Removed(r.S)
        /\ now' = IF raised \/ Len(clk) = 0 THEN now ELSE clk[Len(clk)]
        /\ sweeper' = after_pass(r.exc # NoExc)
        /\ faults' = faults + (IF raised THEN 1 ELSE 0)
        /\ last' = [op |-> "sweep", from |-> sweeper, ret |-> r.ret, exc |-> r.exc]
        /\ UNCHANGED <<issued, log, bound, shutdown, threads, detached>>

\* lifespan after its yield, line 50
Shutdown ==
    /\ shutdown = "serving"
    /\ shutdown' = "cancel_requested"
    /\ last' = [op |-> "shutdown"]
    /\ UNCHANGED <<sessions, now, issued, removed, log, bound, sweeper, faults,
                   threads, detached>>

\* the event loop runs the cancelled task
Cancelled ==
    /\ shutdown = "cancel_requested"
    /\ sweeper \in Waits
    /\ sweeper' = on_cancel(sweeper)
    /\ shutdown' = "cancel_delivered"
    /\ last' = [op |-> "cancelled", at |-> sweeper]
    /\ UNCHANGED <<sessions, now, issued, removed, log, bound, faults,
                   threads, detached>>

\* the program from startup to shutdown.  The event loop runs every task
\* that is ready: the sleeping task when its timer is due, the cancelled
\* task to take its cancellation.
NextSweeper ==
    \/ Tick
    \/ NewSession
    \/ Chat
    \/ SessionHistory
    \/ SweepPass
    \/ Shutdown
    \/ Cancelled

SpecSweeper ==
    /\ InitSweeper
    /\ [][NextSweeper]_vars
    /\ WF_vars(SweepPass)
    /\ WF_vars(Cancelled)

(***************************************************************************)
(* session_manager.py called from concurrent threads.  The class takes no  *)
(* lock, so a thread may be suspended between any two statements, and      *)
(* between the load and the store of an augmented assignment.  Every       *)
(* action below is one such step of thread t, named by its source line.    *)
(* A local variable `session' is a reference to the dict object, which     *)
(* outlives its deletion from the map: `detached' keeps such objects.      *)
(***************************************************************************)
\* the session dict object once stored under key k
Obj(k) == IF k \in DOMAIN sessions THEN sessions[k] ELSE detached[k]

\* the calls a thread may make on the session with id 1
Calls ==
    {[call |-> "get_session", is_user |-> FALSE],
     [call |-> "cleanup_expired_sessions", is_user |-> FALSE]} \cup
    {[call |-> "add_message_to_session", is_user |-> u] : u \in BOOLEAN}

\* a thread about to execute the first statement of its call
Start(c) ==
    [call |-> c.call, id |-> 1, is_user |-> c.is_user,
     pc |-> IF c.call = "cleanup_expired_sessions" THEN "97" ELSE "26",
     session |-> 0, tmp |-> 0, it |-> [size |-> 0, last |-> 0],
     expired_sessions |-> <<>>, ret |-> "", exc |-> NoExc, t0 |-> 0 - 1]

\* a session that has received n messages at clock 0, by turns from the
\* user and from the assistant
Prior(n) ==
    [i \in 1..n |-> message_data("hello", i % 2 = 1, <<0, 0, 0, 0>>)]

\* one session created at clock 0, fresh or with a full history, and the
\* threads before their first statement
InitThreads ==
    /\ \E n \in {0, MaxHistory}, calls \in [1..NThreads -> Calls] :
        /\ sessions = [k \in {1} |->
                         [created_at    |-> 0,
                          last_activity |-> 0,
                          messages      |-> Prior(n),
                          query_count   |-> n \div 2,
                          max_queries   |-> max_queries]]
        /\ log = [k \in 0..1 |-> IF k = 1 THEN Prior(n) ELSE <<>>]
        /\ threads = [t \in 1..NThreads |-> Start(calls[t])]
    /\ now = 0
    /\ issued = <<1>>
    /\ removed = {}
    /\ bound = Bounds(1, 0, 0)
    /\ last = [op |-> "init"]
    /\ sweeper = "created"
    /\ shutdown = "serving"
    /\ faults = 0
    /\ detached = <<>>

\* the thread after an exception left its call
Raise(th, e) == [th EXCEPT !.pc = "done", !.exc = e]

\* the thread after get_session returned: k is the key of the session
\* returned, 0 for None.  In add_message_to_session, lines 45-47 take None
\* to `return False'.
GetReturns(th, k) ==
    IF th.call = "get_session"
    THEN [th EXCEPT !.pc = "done", !.ret = IF k = 0 THEN "None" ELSE "session",
                    !.session = k]
    ELSE IF k = 0
         THEN [th EXCEPT !.pc = "done", !.ret = "False"]
         ELSE [th EXCEPT !.pc = "56", !.session = k]

\* thread t moves to th and leaves everything else as it is
Local(t, th) ==
    /\ threads' = [threads EXCEPT ![t] = th]
    /\ UNCHANGED <<sessions, now, issued, removed, log, last, bound,
                   sweeper, shutdown, faults, detached>>

\* thread t moves to th and the object once stored under key k becomes v
Write(t, th, k, v) ==
    /\ threads' = [threads EXCEPT ![t] = th]
    /\ IF k \in DOMAIN sessions
       THEN /\ sessions' = [sessions EXCEPT ![k] = v]
            /\ detached' = detached
       ELSE /\ detached' = [detached EXCEPT ![k] = v]
            /\ sessions' = sessions
    /\ UNCHANGED <<now, issued, removed, last, bound, sweeper, shutdown, faults>>

\* thread t moves to th and key k leaves the map
Delete(t, th, k) ==
    /\ threads' = [threads EXCEPT ![t] = th]
    /\ sessions' = Del(sessions, k)
    /\ detached' = Put(detached, k, sessions[k])
    /\ removed' = removed \cup {k}
    /\ UNCHANGED <<now, issued, log, last, bound, sweeper, shutdown, faults>>

\* get_session, line 26: if session_id not in self.sessions: return None
Line26(t) ==
    LET th == [threads[t] EXCEPT !.t0 = now] IN
    /\ threads[t].pc = "26"
    /\ Local(t, IF th.id \in DOMAIN sessions
                THEN [th EXCEPT !.pc = "29"]
                ELSE GetReturns(th, 0))

\* get_session, line 29: session = self.sessions[session_id]
Line29(t) ==
    LET th == threads[t] IN
    /\ th.pc = "29"
    /\ Local(t, IF KeyError(sessions, th.id) = NoExc
                THEN [th EXCEPT !.pc = "32", !.session = th.id]
                ELSE Raise(th, KeyError(sessions, th.id)))

\* get_session, line 32: if self._is_session_expired(session):
Line32(t) ==
    LET th == threads[t] IN
    /\ th.pc = "32"
    /\ Local(t, IF _is_session_expired(Obj(th.session), now)
                THEN [th EXCEPT !.pc = "33"]
                ELSE GetReturns(th, th.session))

\* get_session, lines 33-34: del self.sessions[session_id]; return None
Line33(t) ==
    LET th == threads[t] IN
    /\ th.pc = "33"
    /\ IF KeyError(sessions, th.id) = NoExc
       THEN /\ Delete(t, GetReturns(th, 0), th.id)
            /\ log' = log
       ELSE Local(t, Raise(th, KeyError(sessions, th.id)))

\* add_message_to_session, lines 49-56: session['messages'].append(...)
Line56(t) ==
    LET th  == threads[t]
        m   == message_data("hello", th.is_user, <<now, now, now, now>>)
        obj == Obj(th.session)
    IN
    /\ th.pc = "56"
    /\ Write(t, [th EXCEPT !.pc = IF th.is_user THEN "60" ELSE "63"],
             th.session, [obj EXCEPT !.messages = Append(@, m)])
    /\ log' = [log EXCEPT ![th.session] = Append(@, m)]

\* line 60, session['query_count'] += 1: the load of session['query_count']
Line60Load(t) ==
    LET th == threads[t] IN
    /\ th.pc = "60"
    /\ Local(t, [th EXCEPT !.pc = "60 store", !.tmp = Obj(th.session).query_count])

\* line 60, session['query_count'] += 1: the store of the sum
Line60Store(t) ==
    LET th == threads[t] IN
    /\ th.pc = "60 store"
    /\ Write(t, [th EXCEPT !.pc = "63", !.tmp = 0], th.session,
             [Obj(th.session) EXCEPT !.query_count = count_query(th.tmp, th.is_user)])
    /\ log' = log

\* line 63: if len(session['messages']) > 10:
Line63(t) ==
    LET th == threads[t] IN
    /\ th.pc = "63"
    /\ Local(t, [th EXCEPT !.pc = IF Len(Obj(th.session).messages) > MaxHistory
                                  THEN "64" ELSE "40"])

\* line 64, session['messages'] = session['messages'][-10:]: the slice
Line64Slice(t) ==
    LET th == threads[t] IN
    /\ th.pc = "64"
    /\ Local(t, [th EXCEPT !.pc = "64 store",
                           !.tmp = LastN(Obj(th.session).messages, MaxHistory)])

\* line 64, session['messages'] = session['messages'][-10:]: the store
Line64Store(t) ==
    LET th == threads[t] IN
    /\ th.pc = "64 store"
    /\ Write(t, [th EXCEPT !.pc = "40", !.tmp = 0], th.session,
             [Obj(th.session) EXCEPT !.messages = th.tmp])
    /\ log' = log

\* update_session_activity, line 40: if session_id in self.sessions:
\* otherwise the call of line 66 returns and line 67 returns True
Line40(t) ==
    LET th == threads[t] IN
    /\ th.pc = "40"
    /\ Local(t, IF th.id \in DOMAIN sessions
                THEN [th EXCEPT !.pc = "41"]
                ELSE [th EXCEPT !.pc = "done", !.ret = "True"])

\* update_session_activity, line 41:
\* self.sessions[session_id]['last_activity'] = datetime.now(), then line 67
Line41(t) ==
    LET th == threads[t] IN
    /\ th.pc = "41"
    /\ IF KeyError(sessions, th.id) = NoExc
       THEN /\ Write(t, [th EXCEPT !.pc = "done", !.ret = "True"], th.id,
                     [sessions[th.id] EXCEPT !.last_activity = now])
            /\ log' = log
       ELSE Local(t, Raise(th, KeyError(sessions, th.id)))

\* cleanup_expired_sessions, lines 97-98: the iterator of
\* self.sessions.items() notes the size of the dict
Line97(t) ==
    LET th == [threads[t] EXCEPT !.t0 = now] IN
    /\ threads[t].pc = "97"
    /\ Local(t, [th EXCEPT !.pc = "98",
                           !.it = [size |-> Cardinality(DOMAIN sessions), last |-> 0]])

\* line 98: the iterator yields the next item, in insertion order, or ends
\* the loop; it raises RuntimeError when the dict changed size since line 97
Line98(t) ==
    LET th   == threads[t]
        rest == {k \in DOMAIN sessions : k > th.it.last}
    IN
    /\ th.pc = "98"
    /\ Local(t, IF Cardinality(DOMAIN sessions) # th.it.size
                THEN Raise(th, "RuntimeError")
                ELSE IF rest = {}
                THEN [th EXCEPT !.pc = "103", !.tmp = 1]
                ELSE [th EXCEPT !.pc = "99", !.session = Keys(rest)[1],
                                !.it.last = Keys(rest)[1]])

\* lines 99-100: if self._is_session_expired(session):
\*                   expired_sessions.append(session_id)
Line99(t) ==
    LET th == threads[t] IN
    /\ th.pc = "99"
    /\ Local(t, IF _is_session_expired(Obj(th.session), now)
                THEN [th EXCEPT !.pc = "98",
                                !.expired_sessions = Append(@, th.session)]
                ELSE [th EXCEPT !.pc = "98"])

\* lines 102-105: del self.sessions[session_id] for the next collected id,
\* return len(expired_sessions) after the last
Line103(t) ==
    LET th == threads[t] IN
    /\ th.pc = "103"
    /\ IF th.tmp > Len(th.expired_sessions)
       THEN Local(t, [th EXCEPT !.pc = "done", !.ret = "count", !.tmp = 0])
       ELSE IF KeyError(sessions, th.expired_sessions[th.tmp]) = NoExc
       THEN /\ Delete(t, [th EXCEPT !.tmp = @ + 1], th.expired_sessions[th.tmp])
            /\ log' = log
       ELSE Local(t, Raise(th, KeyError(sessions, th.expired_sessions[th.tmp])))

\* the threads run in any interleaving while time passes
NextThreads ==
    \/ Tick
    \/ \E t \in DOMAIN threads : Line26(t)
    \/ \E t \in DOMAIN threads : Line29(t)
    \/ \E t \in DOMAIN threads : Line32(t)
    \/ \E t \in DOMAIN threads : Line33(t)
    \/ \E t \in DOMAIN threads : Line56(t)
    \/ \E t \in DOMAIN threads : Line60Load(t)
    \/ \E t \in DOMAIN threads : Line60Store(t)
    \/ \E t \in DOMAIN threads : Line63(t)
    \/ \E t \in DOMAIN threads : Line64Slice(t)
    \/ \E t \in DOMAIN threads : Line64Store(t)
    \/ \E t \in DOMAIN threads : Line40(t)
    \/ \E t \in DOMAIN threads : Line41(t)
    \/ \E t \in DOMAIN threads : Line97(t)
    \/ \E t \in DOMAIN threads : Line98(t)
    \/ \E t \in DOMAIN threads : Line99(t)
    \/ \E t \in DOMAIN threads : Line103(t)

SpecThreads == InitThreads /\ [][NextThreads]_vars

\* the deployed program: the handlers of main.py and the periodic sweep
Next ==
    \/ Tick
    \/ NewSession
    \/ Chat
    \/ SessionHistory
    \/ CleanupExpiredSessions

Spec == Init /\ [][Next]_vars

SpecChat == InitChat /\ [][Next]_vars

\* the SessionManager driven directly by its callers, without the handlers
NextStore ==
    \/ Tick
    \/ CreateSession
    \/ GetSession
    \/ AddMessage
    \/ GetConversationHistory
    \/ CanMakeQuery
    \/ GetRemainingQueries
    \/ CleanupExpiredSessions
    \/ UpdateSessionActivity

SpecStore == Init /\ [][NextStore]_vars

\* the store driven directly by its callers
NextHist ==
    \/ Tick
    \/ CreateSession
    \/ GetSession
    \/ AddMessage
    \/ GetConversationHistory
    \/ CanMakeQuery
    \/ GetRemainingQueries

SpecHist == InitHist /\ [][NextHist]_vars

\* a session that was created at clock 0 and has received MaxHistory messages
\* since, by turns from the user and from the assistant
Full ==
    [created_at    |-> 0,
     last_activity |-> 0,
     messages      |-> [i \in 1..MaxHistory |->
                          message_data("hello", i % 2 = 1, <<0, 0, 0, 0>>)],
     query_count   |-> MaxHistory \div 2,
     max_queries   |-> max_queries]

\* the store holding one session with a full history, so that every further
\* append to it truncates
InitIds ==
    /\ sessions = [k \in {1} |-> Full]
    /\ now = 0
    /\ issued = <<1>>
    /\ removed = {}
    /\ bound = Bounds(MaxSessions, MaxHistory + IdAppends, MaxTicks)
    /\ log = [k \in 0..MaxSessions |-> IF k = 1 THEN Full.messages ELSE <<>>]
    /\ last = [op |-> "init"]
    /\ sweeper = "created"
    /\ shutdown = "serving"
    /\ faults = 0
    /\ threads = <<>>
    /\ detached = <<>>

SpecIds == InitIds /\ [][NextHist]_vars

(***************************************************************************)
(* Properties                                                              *)
(***************************************************************************)
\* the n most recent entries of a sequence, oldest first
Recent(s, n) == [i \in 1..(IF Len(s) < n THEN Len(s) ELSE n) |->
                    s[i + (IF Len(s) < n THEN 0 ELSE Len(s) - n)]]

\* C1: every stored session holds at most 10 messages, they are the most
\* recent 10 of the messages appended to it, in the order of appending, and
\* get_conversation_history on a live session returns exactly those.
C1_BoundedHistory ==
    /\ \A id \in DOMAIN sessions :
        /\ Len(sessions[id].messages) <= 10
        /\ sessions[id].messages = Recent(log[id], 10)
    /\ (last.op = "get_conversation_history" /\ last.id \in DOMAIN sessions)
            => last.ret = Recent(log[last.id], 10)

\* more than 10 messages of both kinds were appended to a session and its
\* history was then read
C1_Witness ==
    /\ last.op = "get_conversation_history"
    /\ last.id \in DOMAIN sessions
    /\ Len(log[last.id]) > 10
    /\ log[last.id][1].isUser # log[last.id][11].isUser
    /\ Len(last.ret) = 10

\* number of user messages in a sequence of messages
UserCount(s) == Cardinality({i \in 1..Len(s) : s[i].isUser})

\* an operation that resolves an id through get_session
Lookups == {"get_session", "add_message_to_session", "get_conversation_history",
            "can_make_query", "get_remaining_queries"}

\* C2: query_count never decreases, a successful append adds exactly 1 to it
\* when is_user and nothing otherwise, so query_count is the number k of user
\* messages appended to the session and get_remaining_queries returns
\* max(0, max_queries - k).
C2_QueryCount ==
    [][ /\ \A id \in DOMAIN sessions' :
            sessions'[id].query_count = UserCount(log'[id])
        /\ \A id \in (DOMAIN sessions) \cap (DOMAIN sessions') :
            sessions'[id].query_count >= sessions[id].query_count
        /\ (last'.op = "add_message_to_session" /\ last'.ret)
            => sessions'[last'.id].query_count =
                 sessions[last'.id].query_count + (IF last'.is_user THEN 1 ELSE 0)
        /\ (last'.op = "get_remaining_queries" /\ last'.was = "live")
            => last'.ret = (IF UserCount(log[last'.id]) >= 5 THEN 0
                            ELSE 5 - UserCount(log[last'.id]))
      ]_vars

\* more user messages than the quota, and assistant messages, were appended
\* and the remaining queries were then read
C2_Witness ==
    /\ last.op = "get_remaining_queries"
    /\ last.was = "live"
    /\ UserCount(log[last.id]) = 6
    /\ Len(log[last.id]) > 7
    /\ sessions[last.id].query_count = 6
    /\ last.ret = 0

\* C3: a lookup of a session whose idle time exceeds the timeout treats it as
\* nonexistent although it is still in the map: get_session returns None,
\* add_message_to_session returns False and appends nothing,
\* get_conversation_history returns [], get_remaining_queries 0 and
\* can_make_query False.
C3_ExpiredIsAbsent ==
    [][ \A id \in DOMAIN sessions :
          (/\ now - sessions[id].last_activity > session_timeout
           /\ last'.op \in Lookups
           /\ last'.id = id)
          => /\ log' = log
             /\ last'.ret = (CASE last'.op = "get_session" -> <<>>
                               [] last'.op = "add_message_to_session" -> FALSE
                               [] last'.op = "get_conversation_history" -> <<>>
                               [] last'.op = "get_remaining_queries" -> 0
                               [] last'.op = "can_make_query" -> FALSE)
      ]_vars

\* the history of an expired session that holds messages was read
C3_Witness ==
    /\ last.op = "get_conversation_history"
    /\ last.was = "expired"
    /\ log[last.id] # <<>>
    /\ last.ret = <<>>

\* C4: get_session on a stored session returns None and deletes the entry
\* when now - last_activity > session_timeout, and otherwise (also when the
\* difference is exactly session_timeout) returns the session and leaves the
\* map as it is.
C4_GetSessionExpiry ==
    [][ \A id \in DOMAIN sessions :
          (last'.op = "get_session" /\ last'.id = id)
          => IF now - sessions[id].last_activity > session_timeout
             THEN /\ last'.ret = <<>>
                  /\ sessions' = [i \in (DOMAIN sessions) \ {id} |-> sessions[i]]
             ELSE /\ last'.ret = <<sessions[id]>>
                  /\ sessions' = sessions
      ]_vars

\* get_session returned a session idle for exactly session_timeout
C4_Witness ==
    /\ last.op = "get_session"
    /\ last.id \in DOMAIN sessions
    /\ now - sessions[last.id].last_activity = session_timeout
    /\ last.ret = <<sessions[last.id]>>

\* the ids in a sequence of ids
Range(s) == {s[i] : i \in 1..Len(s)}

\* C5: the ids create_session returns are pairwise distinct, an id deleted
\* from the map is never a key of the map again, and the chat handler, given
\* an id that is unknown or expired, stores the new session under an id that
\* was never returned before, not under the supplied id.
C5_FreshIds ==
    [][ /\ \A i, j \in 1..Len(issued') : i # j => issued'[i] # issued'[j]
        /\ removed' \cap (DOMAIN sessions') = {}
        /\ last'.op = "create_new_session"
            => last'.result.session_id \notin Range(issued)
        /\ (last'.op = "chat" /\ last'.was # "live" /\ last'.result.status # 503)
            => /\ last'.result.session_id \notin Range(issued)
               /\ last'.result.session_id # last'.request.session_id
               /\ last'.request.session_id \notin DOMAIN sessions'
               /\ issued' = Append(issued, last'.result.session_id)
      ]_vars

\* a chat request that named an expired session was answered under a new id
C5_Witness ==
    /\ last.op = "chat"
    /\ last.was = "expired"
    /\ last.result.status = 200
    /\ last.request.session_id \in removed
    /\ last.result.session_id \in DOMAIN sessions
    /\ last.result.session_id # last.request.session_id

\* C6: create_session inserts exactly one new session, with an empty
\* history, query_count 0, max_queries 5 and created_at = last_activity = the
\* current time, and leaves every other session as it is.
C6_CreateSession ==
    [][ last'.op = "create_session"
        => /\ last'.ret \notin DOMAIN sessions
           /\ DOMAIN sessions' = (DOMAIN sessions) \cup {last'.ret}
           /\ sessions'[last'.ret].messages = <<>>
           /\ sessions'[last'.ret].query_count = 0
           /\ sessions'[last'.ret].max_queries = 5
           /\ sessions'[last'.ret].created_at = sessions'[last'.ret].last_activity
           /\ sessions'[last'.ret].last_activity = now'
           /\ \A id \in DOMAIN sessions : sessions'[id] = sessions[id]
      ]_vars

\* C7: add_message_to_session on an id that is absent or expired returns
\* False, leaves no session under that id, stores no message and leaves every
\* other session as it is.
C7_AppendNotFound ==
    [][ (last'.op = "add_message_to_session" /\ last'.was # "live")
        => /\ last'.ret = FALSE
           /\ last'.id \notin DOMAIN sessions'
           /\ log' = log
           /\ (DOMAIN sessions') \subseteq (DOMAIN sessions)
           /\ \A other \in (DOMAIN sessions) \ {last'.id} :
                /\ other \in DOMAIN sessions'
                /\ sessions'[other] = sessions[other]
      ]_vars

\* an append to an expired session was refused while another session that
\* holds a message stayed in the map
C7_Witness ==
    /\ last.op = "add_message_to_session"
    /\ last.was = "expired"
    /\ last.ret = FALSE
    /\ last.id \in removed
    /\ \E other \in DOMAIN sessions : sessions[other].messages # <<>>

\* C8: a successful add_message_to_session sets last_activity to the clock
\* value at its return, and a session leaves the map only when the clock is
\* more than session_timeout past its last_activity, however long ago it was
\* created.
C8_ActivityRefresh ==
    [][ /\ (last'.op = "add_message_to_session" /\ last'.ret)
            => sessions'[last'.id].last_activity = now'
        /\ \A id \in (DOMAIN sessions) \ (DOMAIN sessions') :
            now' - sessions[id].last_activity > session_timeout
      ]_vars

\* get_session returned a session created more than session_timeout ago that
\* received a message since
C8_Witness ==
    /\ last.op = "get_session"
    /\ last.was = "live"
    /\ last.ret # <<>>
    /\ last.id \in DOMAIN sessions
    /\ log[last.id] # <<>>
    /\ now - sessions[last.id].created_at > session_timeout

\* C9: can_make_query(id) is true exactly when the id is stored, not expired
\* and query_count < max_queries; for a live session that is exactly when
\* get_remaining_queries(id) > 0.
C9_CanMakeQuery ==
    [][ last'.op = "can_make_query"
        => /\ last'.ret =
                (IF last'.id \in DOMAIN sessions
                 THEN /\ ~(now - sessions[last'.id].last_activity > session_timeout)
                      /\ sessions[last'.id].query_count < sessions[last'.id].max_queries
                 ELSE FALSE)
           /\ last'.was = "live"
                => (last'.ret <=>
                      get_remaining_queries(sessions, last'.id, now).ret > 0)
      ]_vars

\* can_make_query refused a live session that has used its 5 queries
C9_Witness ==
    /\ last.op = "can_make_query"
    /\ last.was = "live"
    /\ last.id \in DOMAIN sessions
    /\ sessions[last.id].query_count = 5
    /\ last.ret = FALSE

\* C10: cleanup_expired_sessions removes exactly the sessions for which
\* get_session, at the instant the sweep examines them, returns None; it
\* returns their number and leaves the other sessions as they are.
C10_SweepEquivalence ==
    [][ last'.op = "cleanup_expired_sessions"
        => LET gone == {id \in DOMAIN sessions :
                          get_session(sessions, id, last'.reads[id]).ret = <<>>}
           IN /\ DOMAIN sessions' = (DOMAIN sessions) \ gone
              /\ last'.ret = Cardinality(gone)
              /\ \A id \in DOMAIN sessions' : sessions'[id] = sessions[id]
      ]_vars

\* a sweep over two sessions removed one and kept the other
C10_Witness ==
    /\ last.op = "cleanup_expired_sessions"
    /\ Cardinality(DOMAIN last.reads) = 2
    /\ last.ret = 1
    /\ Cardinality(DOMAIN sessions) = 1
    /\ (DOMAIN sessions) \subseteq (DOMAIN last.reads)

\* C13: the store does not enforce the quota: an append with is_user on a
\* live session whose query_count has reached max_queries still succeeds,
\* stores the message and takes query_count one further past max_queries,
\* while get_remaining_queries for it is 0, never negative, and can_make_query
\* is false.
C13_QuotaNotEnforced ==
    [][ /\ \A id \in DOMAIN sessions :
            (/\ last'.op = "add_message_to_session"
             /\ last'.id = id
             /\ last'.is_user
             /\ last'.was = "live"
             /\ sessions[id].query_count >= sessions[id].max_queries)
            => /\ last'.ret = TRUE
               /\ sessions'[id].query_count = sessions[id].query_count + 1
               /\ sessions'[id].query_count > sessions'[id].max_queries
               /\ Len(log'[id]) = Len(log[id]) + 1
               /\ get_remaining_queries(sessions', id, now').ret = 0
               /\ can_make_query(sessions', id, now').ret = FALSE
        /\ last'.op = "get_remaining_queries" => last'.ret >= 0
        /\ \A id \in DOMAIN sessions :
            (/\ last'.op \in {"get_remaining_queries", "can_make_query"}
             /\ last'.id = id
             /\ last'.was = "live"
             /\ sessions[id].query_count >= sessions[id].max_queries)
            => last'.ret = (IF last'.op = "can_make_query" THEN FALSE ELSE 0)
      ]_vars

\* a user message was appended to a live session that was already one past
\* its quota
C13_Witness ==
    /\ last.op = "add_message_to_session"
    /\ last.is_user
    /\ last.was = "live"
    /\ last.ret = TRUE
    /\ last.id \in DOMAIN sessions
    /\ sessions[last.id].query_count = max_queries + 2

\* the operations of the store
StoreOps == {"create_session", "get_session", "add_message_to_session",
             "get_conversation_history", "get_remaining_queries",
             "can_make_query", "cleanup_expired_sessions",
             "update_session_activity"}

\* the outcome an operation of the store documents: a session or None, a
\* Boolean, a list, a count, an id
Structured(op, ret) ==
    CASE op = "create_session"             -> ret \in Nat
      [] op = "get_session"                -> \/ ret = None
                                              \/ /\ Len(ret) = 1
                                                 /\ DOMAIN ret[1] =
                                                      {"created_at", "last_activity",
                                                       "messages", "query_count",
                                                       "max_queries"}
      [] op = "add_message_to_session"     -> ret \in BOOLEAN
      [] op = "get_conversation_history"   -> DOMAIN ret = 1..Len(ret)
      [] op = "get_remaining_queries"      -> ret \in Nat
      [] op = "can_make_query"             -> ret \in BOOLEAN
      [] op = "cleanup_expired_sessions"   -> ret \in Nat
      [] op = "update_session_activity"    -> ret = None

\* C15: every operation of the store, called with an id that is live,
\* expired, already removed or never created, returns its documented kind of
\* outcome and raises nothing.
C15_NeverRaises ==
    [][ last'.op \in StoreOps
        => /\ last'.exc = NoExc
           /\ Structured(last'.op, last'.ret)
      ]_vars

\* the quota of an id that had been removed from the map was asked for and
\* the call returned
C15_Witness ==
    /\ last.op = "can_make_query"
    /\ last.was = "absent"
    /\ last.id \in removed
    /\ last.exc = NoExc
    /\ last.ret = FALSE

\* the operations of the store other than add_message_to_session
ReadOps == StoreOps \ {"add_message_to_session"}

\* C19: create_session, get_session, get_conversation_history,
\* can_make_query, get_remaining_queries, cleanup_expired_sessions (and
\* update_session_activity, called on its own) store no message; every session they leave in the map keeps its messages and its
\* query_count, and every session they take out of the map is expired.
C19_SingleMutationPoint ==
    [][ last'.op \in ReadOps
        => /\ log' = log
           /\ \A id \in DOMAIN sessions :
                IF id \in DOMAIN sessions'
                THEN /\ sessions'[id].messages = sessions[id].messages
                     /\ sessions'[id].query_count = sessions[id].query_count
                ELSE now' - sessions[id].last_activity > session_timeout
      ]_vars

\* get_session removed an expired session while a session that holds a
\* message stayed in the map
C19_Witness ==
    /\ last.op = "get_session"
    /\ last.was = "expired"
    /\ last.ret = None
    /\ \E other \in DOMAIN sessions :
        /\ sessions[other].messages # <<>>
        /\ sessions[other].query_count = 1

\* the messages a chat request stores when both its appends succeed, by text
\* and author
Exchange(request, response) ==
    <<[text |-> strip(request.message), isUser |-> TRUE],
      [text |-> response, isUser |-> FALSE]>>

\* text and author of the messages of a history
Authored(s) == [i \in 1..Len(s) |-> [text |-> s[i].text, isUser |-> s[i].isUser]]

\* C14: through the chat handler a session that stays live accepts its 1st
\* to 5th user message (answer 200, the message and its reply stored,
\* query_count one higher) and rejects the next request with 429, which
\* stores nothing; so no session ever holds a query_count above max_queries.
C14_ChatQuota ==
    [][ /\ \A id \in DOMAIN sessions' : sessions'[id].query_count <= 5
        /\ (last'.op = "chat" /\ last'.result.status = 429)
            => /\ log' = log
               /\ \A id \in (DOMAIN sessions) \cap (DOMAIN sessions') :
                    sessions'[id] = sessions[id]
        /\ \A id \in DOMAIN sessions :
            (/\ last'.op = "chat"
             /\ last'.request.session_id = id
             /\ last'.result.status # 503
             /\ ~(now' - sessions[id].last_activity > session_timeout))
            => IF sessions[id].query_count >= 5
               THEN last'.result.status = 429
               ELSE IF strip(last'.request.message) = ""
               THEN last'.result.status = 400
               ELSE /\ last'.result.status = 200
                    /\ last'.result.session_id = id
                    /\ sessions'[id].query_count = sessions[id].query_count + 1
                    /\ Authored(log'[id]) =
                         Authored(log[id]) \o
                           Exchange(last'.request, last'.result.response)
      ]_vars

\* the sixth chat request on a session whose five queries were answered got 429
C14_Witness ==
    /\ last.op = "chat"
    /\ last.was = "live"
    /\ last.result.status = 429
    /\ last.request.session_id \in DOMAIN sessions
    /\ sessions[last.request.session_id].query_count = 5
    /\ Len(log[last.request.session_id]) = 10

\* the session a chat request was answered for
Answered == last'.result.session_id

\* where a chat request stored its reply, the reply follows the user message
\* of the same request
ReplyAfterUser ==
    (Len(log'[Answered]) > Len(log[Answered])
        /\ ~log'[Answered][Len(log'[Answered])].isUser)
    => Authored(log'[Answered]) =
         Authored(log[Answered]) \o Exchange(last'.request, last'.result.response)

\* a request answered on a session created for it leaves the history
\* [user, assistant] and 4 remaining queries
FreshExchange ==
    last'.was # "live"
    => /\ Answered \in DOMAIN sessions'
       /\ Authored(sessions'[Answered].messages) =
            Exchange(last'.request, last'.result.response)
       /\ last'.result.remaining_queries = 5 - 1

\* C20: a chat request stores its user message before its reply, so the reply
\* stands after the user message of the same request in the history; a
\* request on a fresh session leaves the history [user, assistant] and
\* max_queries - 1 remaining queries.
C20_ChatOrder ==
    [][ (last'.op = "chat" /\ last'.result.status = 200)
        => (ReplyAfterUser /\ FreshExchange)
      ]_vars

\* the ordering part of C20 alone
C20_ReplyAfterUser ==
    [][ (last'.op = "chat" /\ last'.result.status = 200) => ReplyAfterUser ]_vars

\* C16: a sweep pass that raises leaves the task in the sleep of line 64,
\* not ended, and unless the task is cancelled that sleep is followed by
\* another pass.
C16_SweepAfterFailure ==
    /\ [][ (last'.op = "sweep" /\ last'.exc # NoExc)
           => sweeper' = "sleep_after_error" ]_vars
    /\ [][ (sweeper = "sleep_after_error" /\ shutdown' = "serving")
           => (sweeper' = "sleep_after_error"
               \/ (last'.op = "sweep" /\ last'.from = "sleep_after_error")) ]_vars
    /\ \A n \in 0..MaxFaults :
        (sweeper = "sleep_after_error" /\ faults = n)
            ~> (sweeper = "sleep" \/ faults > n \/ shutdown # "serving")

\* after a pass that raised, a later pass removed a session
C16_Witness ==
    /\ last.op = "sweep"
    /\ last.from = "sleep_after_error"
    /\ last.exc = NoExc
    /\ last.ret >= 1
    /\ faults >= 1
    /\ sweeper = "sleep"

\* C17: once shutdown has cancelled the task, the task ends, from the sleep
\* of line 59 as from the sleep of line 64, and stays ended; no pass starts
\* after the cancellation; the cancellation reaches the task only at a wait
\* and its step leaves the store as it is, and every pass that starts runs
\* to its end: it leaves no session that was expired when it started.
C17_Cancellation ==
    /\ (shutdown = "cancel_requested") ~> (sweeper \in Ended)
    /\ [][ /\ shutdown # "serving" => last'.op # "sweep"
           /\ sweeper \in Ended => sweeper' = sweeper
           /\ last'.op = "cancelled"
                => /\ last'.at \in Waits
                   /\ sweeper' \in Ended
                   /\ sessions' = sessions
           /\ (last'.op = "sweep" /\ last'.exc = NoExc)
                => \A id \in DOMAIN sessions' :
                     ~(now - sessions[id].last_activity > session_timeout)
         ]_vars

\* the task was cancelled in the sleep that follows a pass that raised
C17_Witness ==
    /\ last.op = "cancelled"
    /\ last.at = "sleep_after_error"
    /\ sweeper = "cancelled"
    /\ shutdown = "cancel_delivered"
    /\ faults >= 1

\* C18: as long as the task is not cancelled, a stored session whose idle
\* time exceeds session_timeout is eventually out of the map, whether or not
\* a request names it.
C18_ExpiredEventuallyRemoved ==
    \A id \in 1..SweeperSessions :
        (id \in DOMAIN sessions
            /\ now - sessions[id].last_activity > session_timeout)
        ~> (id \notin DOMAIN sessions \/ shutdown # "serving")

\* one pass of the task removed two expired sessions no request had named
C18_Witness ==
    /\ last.op = "sweep"
    /\ last.exc = NoExc
    /\ last.ret = 2
    /\ removed = {1, 2}
    /\ sessions = <<>>
    /\ shutdown = "serving"

\* the threads that make the given call
Callers(call) == {t \in DOMAIN threads : threads[t].call = call}

\* C11: get_session and cleanup_expired_sessions, run by two threads on the
\* same session after it has expired, raise nothing, and once both have
\* returned the session is out of the map, get_session has returned None,
\* the sweep has deleted the session or found it deleted, and the key was
\* deleted by one of them only.
C11_ConcurrentExpiry ==
    \A r \in Callers("get_session"), w \in Callers("cleanup_expired_sessions") :
        (/\ threads[r].t0 > session_timeout
         /\ threads[w].t0 > session_timeout)
        => /\ threads[r].exc = NoExc
           /\ threads[w].exc = NoExc
           /\ (threads[r].pc = "done" /\ threads[w].pc = "done")
                => /\ 1 \notin DOMAIN sessions
                   /\ removed = {1}
                   /\ threads[r].ret = "None"
                   /\ threads[w].ret = "count"
                   /\ Len(threads[w].expired_sessions) \in {0, 1}

\* C12: N calls of add_message_to_session with is_user = true, run by
\* concurrent threads on a fresh session, leave query_count = N and a
\* history of min(N, 10) messages once all have returned True.
C12_ConcurrentAppends ==
    (/\ \A t \in DOMAIN threads :
            /\ threads[t].call = "add_message_to_session"
            /\ threads[t].is_user
            /\ threads[t].pc = "done"
            /\ threads[t].ret = "True"
     /\ Len(log[1]) = NThreads
     /\ 1 \in DOMAIN sessions)
    => /\ sessions[1].query_count = NThreads
       /\ Len(sessions[1].messages) = (IF NThreads < 10 THEN NThreads ELSE 10)

\* C21: no operation of the store makes an expired session live again: a
\* session that is in the map with now - last_activity > session_timeout and
\* is still in the map after a call keeps its last_activity and is still
\* expired, update_session_activity included.
C21_ExpiredStaysExpired ==
    [][ \A id \in (DOMAIN sessions) \cap (DOMAIN sessions') :
          now - sessions[id].last_activity > session_timeout
          => /\ sessions'[id].last_activity = sessions[id].last_activity
             /\ now' - sessions'[id].last_activity > session_timeout
      ]_vars

\* C22: when a chat request is answered 200, the session_id of the response
\* names a session that is in the map and not expired, whose history ends
\* with the user message of the request followed by its reply, and the
\* remaining_queries of the response is max_queries - query_count of that
\* session, however the clock advances while the handler runs.
C22_ChatResponse ==
    [][ (last'.op = "chat" /\ last'.result.status = 200)
        => /\ Answered \in DOMAIN sessions'
           /\ ~(now' - sessions'[Answered].last_activity > session_timeout)
           /\ Len(sessions'[Answered].messages) >= 2
           /\ Authored(LastN(sessions'[Answered].messages, 2)) =
                Exchange(last'.request, last'.result.response)
           /\ last'.result.remaining_queries =
                sessions'[Answered].max_queries - sessions'[Answered].query_count
      ]_vars

\* the sessions of a map that are not expired at clock value t
Live(S, t) == {id \in DOMAIN S : ~(t - S[id].last_activity > session_timeout)}

\* C23: a chat request that is rejected with 400 (empty message after
\* trimming) or 429 (quota reached) leaves the live sessions and their
\* contents as they were: the sessions live when it returns are those that
\* were in the map before, unchanged, and no session created for the request
\* stays in the map.
C23_RejectedLeavesStore ==
    [][ (last'.op = "chat" /\ last'.result.status \in {400, 429})
        => /\ Live(sessions', now') = Live(sessions, now')
           /\ \A id \in Live(sessions', now') : sessions'[id] = sessions[id]
           /\ issued' = issued
      ]_vars

\* C24: in every session query_count is at least the number of user messages
\* its history holds, and equal to it while nothing was truncated from the
\* session (at most 10 appends so far); no step lowers the query_count of a
\* session, a truncating append included.
C24_CountCoversHistory ==
    [][ /\ \A id \in DOMAIN sessions' :
            /\ sessions'[id].query_count >= UserCount(sessions'[id].messages)
            /\ Len(log'[id]) <= 10
                => sessions'[id].query_count = UserCount(sessions'[id].messages)
        /\ \A id \in (DOMAIN sessions) \cap (DOMAIN sessions') :
            Len(sessions'[id].messages) < Len(log'[id])
            => sessions'[id].query_count >= sessions[id].query_count
      ]_vars

\* the eleventh append to a session dropped a user message from its history
\* and its query_count now exceeds the user messages it holds
C24_Witness ==
    /\ last.op = "add_message_to_session"
    /\ last.ret = TRUE
    /\ last.id \in DOMAIN sessions
    /\ Len(log[last.id]) = 11
    /\ log[last.id][1].isUser
    /\ Len(sessions[last.id].messages) = 10
    /\ sessions[last.id].query_count > UserCount(sessions[last.id].messages)
    /\ UserCount(sessions[last.id].messages) > 0

\* the ids of the messages of a history, in list order
MessageIds(s) == [i \in 1..Len(s) |-> s[i].id]

\* C25: in the history of every session the message ids never decrease in
\* list order, whatever appends and truncations produced the history.
C25_IdsNonDecreasing ==
    \A id \in DOMAIN sessions :
        \A i, j \in 1..Len(sessions[id].messages) :
            i <= j => MessageIds(sessions[id].messages)[i] <=
                        MessageIds(sessions[id].messages)[j]

\* a history that was truncated more than once holds messages appended at
\* three different clock values
C25_Witness ==
    \E id \in DOMAIN sessions :
        /\ Len(log[id]) > MaxHistory + 1
        /\ Len(sessions[id].messages) = MaxHistory
        /\ Cardinality({MessageIds(sessions[id].messages)[i] :
                            i \in 1..MaxHistory}) >= 3

====
